---------------------------- MODULE Spec2Model ----------------------------
(***************************************************************************)
(* nvpowermizerd: a daemon that polls the X idle time and drives the GPU   *)
(* PowerMizer mode through `nvidia-settings`.  The model follows           *)
(* src/nvpowermizerd.c statement by statement: Init (signal handlers, X    *)
(* state), argument parsing, PrepareCommands, the poll loop of main, the   *)
(* two Switch functions, and HandleSignal/Cleanup, which may interrupt the *)
(* main flow between any two steps once a handler is installed.            *)
(*                                                                         *)
(* Numbers wider than 31 bits are not written as one integer: a value the  *)
(* X server reports (CARD32 in an unsigned long) is the pair               *)
(* [hi |-> bit 31, lo |-> low 31 bits].                                    *)
(***************************************************************************)
EXTENDS Integers, Sequences, FiniteSets, TLC

\* ------------------------------------------------------------ bounds
\* Number of polls of the main loop that are explored.
MaxPolls == 3

\* ------------------------------------------------- program constants
SWITCH_TO_LOW_POWER_AFTER_IDLE_MS == 20000
IDLE_POLL_FREQ_LOW_POWER_MS == 10
IDLE_POLL_FREQ_HIGH_POWER_MS == 5000

\* Largest value of the C type int (idleMS, retVal, the usleep argument).
INT_MAX == 2147483647

LOW_POWER == "LOW_POWER"
HIGH_POWER == "HIGH_POWER"
Modes == {LOW_POWER, HIGH_POWER}

SIGTERM == "SIGTERM"
SIGINT == "SIGINT"

\* A char* : NULL, a string built by asprintf, or a pointer already freed.
NULL == [st |-> "null", mode |-> "none", gpu |-> 0]

LOW_POWER_CMD_FMT_STR(g) == [st |-> "valid", mode |-> LOW_POWER, gpu |-> g]

HIGH_POWER_CMD_FMT_STR(g) == [st |-> "valid", mode |-> HIGH_POWER, gpu |-> g]

\* Values --gpuid may carry (atoi of the argument); 0 is also the default.
GpuIDs == {0, 2}

\* Idle times the X server can report: SSInfo->idle is an unsigned long
\* holding a CARD32 millisecond count.  20001 is what it reports when no
\* input arrives during the sleep that follows a switch to high power.
IdleValue(hi, lo) == [hi |-> hi, lo |-> lo]

IdleSamples ==
    { IdleValue(0, 100), IdleValue(0, 19999), IdleValue(0, 20000),
      IdleValue(0, 20001), IdleValue(1, 0), IdleValue(1, INT_MAX) }

\* The reported value compared with a millisecond count below 2^31.
ReportedLess(s, ms) == s.hi = 0 /\ s.lo < ms

\* Statuses system() hands back: 0, a failing exit status, -1 (no child).
EXIT_OK == 0
EXIT_FAIL == 256
NO_CHILD == 0 - 1

VARIABLES
    pc,            \* position of the main flow
    proc,          \* "running", "exited", "crashed"
    exitStatus,    \* status passed to exit / returned from main
    installed,     \* signals whose disposition is HandleSignal
    SSInfo,        \* "null", "alloc", "freed"
    display,       \* "null", "open", "closed"
    gpuID,
    verbose,
    lowPowerCmd,
    highPowerCmd,
    currentMode,
    sample,        \* value reported by X at the last poll
    idleMS,        \* the int the loop holds
    target,        \* Switch function the main flow is inside ("none" outside)
    sleepUs,       \* argument of the usleep in progress
    handlers,      \* stack of HandleSignal activations, innermost last
    child,         \* per caller of system(): the command process it started
    device,        \* PowerMizer mode last applied to the GPU, and whose
                   \* command applied it
    calls,         \* history: every system() call made, in order
    polls,         \* history: number of polls taken
    iterMode,      \* history: currentMode when the last poll was taken
    iterCalls,     \* history: calls the loop made since the last poll
    iterRets,      \* history: values system() returned since the last poll
    lastLog,       \* history: lines printed by the last statements that log
    refCalls,      \* history: target modes the two-state reference policy
                   \* would have activated for the samples polled so far
    runCalls,      \* history: calls the loop made since the reported sample
                   \* last differed from the one before
    quiet          \* history: the last poll came after a Low -> High switch
                   \* and its sample is the previous one plus the sleep

vars == << pc, proc, exitStatus, installed, SSInfo, display, gpuID, verbose,
           lowPowerCmd, highPowerCmd, currentMode, sample, idleMS, target,
           sleepUs, handlers, child, device, calls, polls, iterMode,
           iterCalls, iterRets, lastLog, refCalls, runCalls, quiet >>

xVars == << SSInfo, display >>
cfgVars == << gpuID, verbose >>
cmdVars == << lowPowerCmd, highPowerCmd >>
iterVars == << sample, idleMS, polls, iterMode >>
histVars == << calls, iterCalls, iterRets >>
obsVars == << lastLog, refCalls, runCalls, quiet >>

Owners == {"main", "h1", "h2"}
NoChild == [st |-> "none", mode |-> "none", code |-> 0]
HOwner(i) == IF i = 1 THEN "h1" ELSE "h2"

\* ------------------------------------------------------------- Init
\* (variant: the daemon starting in high power)
currentModeInitHigh == HIGH_POWER

currentModeInit == LOW_POWER

gpuIDInit == 0

verboseInit == 0

Init ==
    /\ pc = "init_sigterm"
    /\ proc = "running"
    /\ exitStatus = 0
    /\ installed = {}
    /\ SSInfo = "null"
    /\ display = "null"
    /\ gpuID = gpuIDInit
    /\ verbose = verboseInit
    /\ lowPowerCmd = NULL
    /\ highPowerCmd = NULL
    /\ currentMode = currentModeInit
    /\ sample = IdleValue(0, 0)
    /\ idleMS = 0
    /\ target = "none"
    /\ sleepUs = 0
    /\ handlers = << >>
    /\ child = [o \in Owners |-> NoChild]
    /\ device = [mode |-> "unknown", by |-> "none"]
    /\ calls = << >>
    /\ polls = 0
    /\ iterMode = currentModeInit
    /\ iterCalls = << >>
    /\ iterRets = << >>
    /\ lastLog = << >>
    /\ refCalls = << >>
    /\ runCalls = 0
    /\ quiet = FALSE

\* The main flow runs only while no handler activation is on the stack:
\* HandleSignal never returns, it ends in exit(0).
MainRuns == proc = "running" /\ handlers = << >>

\* ------------------------------------------------------ LOG, LOGDEBUG
\* (variant: debug lines printed at every verbosity)
LOGDEBUGAlways(line) == << line >>

\* LOGDEBUG(...): if (verbose) printf(...).  What the statement prints.
LOGDEBUG(line) == IF verbose # 0 THEN << line >> ELSE << >>

\* LOG(...): printf(...)
LOG(line) == << line >>

\* ------------------------------------------------------ Init() of C
\* sigaction(SIGTERM, &action, NULL)
InstallSigterm ==
    /\ MainRuns /\ pc = "init_sigterm"
    /\ installed' = installed \cup {SIGTERM}
    /\ pc' = "init_sigint"
    /\ UNCHANGED << proc, exitStatus, xVars, cfgVars, cmdVars, currentMode,
                    iterVars, target, sleepUs, handlers, child, device,
                    histVars, obsVars >>

\* sigaction(SIGINT, &action, NULL)
InstallSigint ==
    /\ MainRuns /\ pc = "init_sigint"
    /\ installed' = installed \cup {SIGINT}
    /\ pc' = "init_alloc"
    /\ UNCHANGED << proc, exitStatus, xVars, cfgVars, cmdVars, currentMode,
                    iterVars, target, sleepUs, handlers, child, device,
                    histVars, obsVars >>

\* SSInfo = XScreenSaverAllocInfo()
AllocInfo ==
    /\ MainRuns /\ pc = "init_alloc"
    /\ SSInfo' = "alloc"
    /\ pc' = "init_open"
    /\ UNCHANGED << proc, exitStatus, installed, display, cfgVars, cmdVars,
                    currentMode, iterVars, target, sleepUs, handlers, child,
                    device, histVars, obsVars >>

\* display = XOpenDisplay(NULL), succeeding
OpenDisplayOk ==
    /\ MainRuns /\ pc = "init_open"
    /\ display' = "open"
    /\ pc' = "parse"
    /\ UNCHANGED << proc, exitStatus, installed, SSInfo, cfgVars, cmdVars,
                    currentMode, iterVars, target, sleepUs, handlers, child,
                    device, histVars, obsVars >>

\* (variant: a NULL display ignored, start-up going on)
OpenDisplayFailIgnored ==
    /\ MainRuns /\ pc = "init_open"
    /\ pc' = "parse"
    /\ UNCHANGED << proc, exitStatus, installed, xVars, cfgVars, cmdVars,
                    currentMode, iterVars, target, sleepUs, handlers, child,
                    device, histVars, obsVars >>

\* XOpenDisplay returns NULL: LOG and exit(1)
OpenDisplayFail ==
    /\ MainRuns /\ pc = "init_open"
    /\ proc' = "exited"
    /\ exitStatus' = 1
    /\ pc' = "done"
    /\ lastLog' = LOG("Couldn't open X display!")
    /\ UNCHANGED << installed, xVars, cfgVars, cmdVars, currentMode,
                    iterVars, target, sleepUs, handlers, child, device,
                    histVars,
                    refCalls, runCalls, quiet >>

\* argp_parse: ParseOption is called for each option given, 'v' setting
\* verbose to 1 and 'g' setting gpuID to atoi(arg) and, where verbose is
\* set by then, printing it.
ArgpParse ==
    /\ MainRuns /\ pc = "parse"
    /\ \E v \in {verbose, 1} : verbose' = v
    /\ \E g \in {gpuID} \cup GpuIDs : gpuID' = g
    /\ pc' = "prepare_low"
    /\ \E l \in {lastLog} \cup
                 (IF verbose' # 0 THEN {LOG("GPU ID set to %d")} ELSE {}) :
          lastLog' = l
    /\ UNCHANGED << proc, exitStatus, installed, xVars, cmdVars,
                    currentMode, iterVars, target, sleepUs, handlers, child,
                    device, histVars,
                    refCalls, runCalls, quiet >>

\* ------------------------------------------------- PrepareCommands
\* asprintf(&lowPowerCmd, LOW_POWER_CMD_FMT_STR, gpuID) succeeding
PrepareLowOk ==
    /\ MainRuns /\ pc = "prepare_low"
    /\ lowPowerCmd' = LOW_POWER_CMD_FMT_STR(gpuID)
    /\ pc' = "prepare_high"
    /\ UNCHANGED << proc, exitStatus, installed, xVars, cfgVars,
                    highPowerCmd, currentMode, iterVars, target, sleepUs,
                    handlers, child, device, histVars, obsVars >>

\* asprintf(&highPowerCmd, HIGH_POWER_CMD_FMT_STR, gpuID) succeeding
PrepareHighOk ==
    /\ MainRuns /\ pc = "prepare_high"
    /\ highPowerCmd' = HIGH_POWER_CMD_FMT_STR(gpuID)
    /\ pc' = "poll"
    /\ UNCHANGED << proc, exitStatus, installed, xVars, cfgVars,
                    lowPowerCmd, currentMode, iterVars, target, sleepUs,
                    handlers, child, device, histVars, obsVars >>

\* either asprintf fails: PrepareCommands returns retVal < 0, main logs
\* and returns 1
PrepareFail ==
    /\ MainRuns /\ pc \in {"prepare_low", "prepare_high"}
    /\ proc' = "exited"
    /\ exitStatus' = 1
    /\ pc' = "done"
    /\ lastLog' = LOG("Failed to allocate memory for command strings")
    /\ UNCHANGED << installed, xVars, cfgVars, cmdVars, currentMode,
                    iterVars, target, sleepUs, handlers, child, device,
                    histVars,
                    refCalls, runCalls, quiet >>

\* ------------------------------------------------------ the poll loop
\* int idleMS = GetIdleTimeMS(): the CARD32 count, carried in a time_t, is
\* converted to int, which keeps its low 32 bits as a two's complement
\* number.
IntOfIdle(s) == IF s.hi = 0 THEN s.lo ELSE s.lo - INT_MAX - 1

\* (variant: the low-power test off by one)
ActivityDetectedOffByOne(ms) == ms < SWITCH_TO_LOW_POWER_AFTER_IDLE_MS - 1

\* idleMS < SWITCH_TO_LOW_POWER_AFTER_IDLE_MS, the test made in low power
ActivityDetected(ms) == ms < SWITCH_TO_LOW_POWER_AFTER_IDLE_MS

\* (variant: the high-power test overlapping the low-power one)
IdleTimeoutReachedEarly(ms) == ms >= SWITCH_TO_LOW_POWER_AFTER_IDLE_MS - 1

\* idleMS >= SWITCH_TO_LOW_POWER_AFTER_IDLE_MS, the test made in high power
IdleTimeoutReached(ms) == ms >= SWITCH_TO_LOW_POWER_AFTER_IDLE_MS

\* usleep arguments of the three usleep calls, in microseconds.  The
\* computed one is int arithmetic: where (threshold - idleMS + 1) * 1000
\* leaves the range of int the behaviour is undefined and the argument is
\* any of the values below.
OverflowSleeps == {0, IDLE_POLL_FREQ_LOW_POWER_MS * 1000, INT_MAX}

ComputedSleepOverflows(ms) ==
    ms < SWITCH_TO_LOW_POWER_AFTER_IDLE_MS + 1 - (INT_MAX \div 1000)

\* (variant: the sleep without its extra millisecond)
ComputedSleepUsNoMargin(ms) ==
    IF ComputedSleepOverflows(ms)
    THEN OverflowSleeps
    ELSE {(SWITCH_TO_LOW_POWER_AFTER_IDLE_MS - ms) * 1000}

ComputedSleepUs(ms) ==
    IF ComputedSleepOverflows(ms)
    THEN OverflowSleeps
    ELSE {(SWITCH_TO_LOW_POWER_AFTER_IDLE_MS - ms + 1) * 1000}

LowPowerSleepUs == IDLE_POLL_FREQ_LOW_POWER_MS * 1000

HighPowerSleepUs == IDLE_POLL_FREQ_HIGH_POWER_MS * 1000

\* The two-state policy the loop is compared with, fed the reported
\* sample s: in low power a sample below the threshold activates high power,
\* in high power a sample at or above it activates low power.  done is the
\* sequence of modes the policy has activated so far, starting in low power.
RefMode(done) == IF done = << >> THEN LOW_POWER ELSE done[Len(done)]

RefCallsAfter(done, s) ==
    IF /\ RefMode(done) = LOW_POWER
       /\ ReportedLess(s, SWITCH_TO_LOW_POWER_AFTER_IDLE_MS)
    THEN Append(done, HIGH_POWER)
    ELSE IF /\ RefMode(done) = HIGH_POWER
            /\ ~ReportedLess(s, SWITCH_TO_LOW_POWER_AFTER_IDLE_MS)
         THEN Append(done, LOW_POWER)
         ELSE done

\* The iteration that just ended switched from low to high power on a
\* reported sample in 0 .. threshold - 1, and the sample s now reported is
\* that sample plus the time slept: no input arrived in between.
QuietSince(s) ==
    /\ polls > 0
    /\ iterMode = LOW_POWER
    /\ iterCalls # << >>
    /\ ReportedLess(sample, SWITCH_TO_LOW_POWER_AFTER_IDLE_MS)
    /\ s.hi = 0
    /\ s.lo = sample.lo + sleepUs \div 1000

\* idleMS = GetIdleTimeMS(); LOGDEBUG("Poll - ...")
Poll ==
    /\ MainRuns /\ pc = "poll"
    /\ polls < MaxPolls
    /\ polls' = polls + 1
    /\ iterMode' = currentMode
    /\ iterCalls' = << >>
    /\ iterRets' = << >>
    /\ pc' = "branch"
    /\ \E s \in IdleSamples :
          /\ refCalls' = RefCallsAfter(refCalls, s)
          /\ runCalls' = IF polls > 0 /\ s = sample THEN runCalls ELSE 0
          /\ quiet' = QuietSince(s)
          /\ sample' = s
          /\ idleMS' = IntOfIdle(s)
    /\ lastLog' = LOGDEBUG("Poll - idle time: %dms Mode: %s")
    /\ UNCHANGED << proc, exitStatus, installed, xVars, cfgVars, cmdVars,
                    currentMode, target, sleepUs, handlers, child, device,
                    calls >>

\* currentMode == LOW_POWER and idleMS below the threshold: enter
\* SwitchToHighPower
LowPowerActivity ==
    /\ MainRuns /\ pc = "branch"
    /\ currentMode = LOW_POWER
    /\ ActivityDetected(idleMS)
    /\ target' = HIGH_POWER
    /\ pc' = "sw_call"
    /\ UNCHANGED << proc, exitStatus, installed, xVars, cfgVars, cmdVars,
                    currentMode, iterVars, sleepUs, handlers, child, device,
                    histVars, obsVars >>

\* currentMode == LOW_POWER otherwise: usleep(IDLE_POLL_FREQ_LOW_POWER_MS * 1000)
LowPowerIdle ==
    /\ MainRuns /\ pc = "branch"
    /\ currentMode = LOW_POWER
    /\ ~ActivityDetected(idleMS)
    /\ sleepUs' = LowPowerSleepUs
    /\ pc' = "sleep"
    /\ UNCHANGED << proc, exitStatus, installed, xVars, cfgVars, cmdVars,
                    currentMode, iterVars, target, handlers, child, device,
                    histVars, obsVars >>

\* currentMode == HIGH_POWER and idleMS at or above the threshold: enter
\* SwitchToLowPower
HighPowerIdle ==
    /\ MainRuns /\ pc = "branch"
    /\ currentMode # LOW_POWER
    /\ IdleTimeoutReached(idleMS)
    /\ target' = LOW_POWER
    /\ pc' = "sw_call"
    /\ UNCHANGED << proc, exitStatus, installed, xVars, cfgVars, cmdVars,
                    currentMode, iterVars, sleepUs, handlers, child, device,
                    histVars, obsVars >>

\* currentMode == HIGH_POWER otherwise: usleep(IDLE_POLL_FREQ_HIGH_POWER_MS * 1000)
HighPowerActive ==
    /\ MainRuns /\ pc = "branch"
    /\ currentMode # LOW_POWER
    /\ ~IdleTimeoutReached(idleMS)
    /\ sleepUs' = HighPowerSleepUs
    /\ pc' = "sleep"
    /\ UNCHANGED << proc, exitStatus, installed, xVars, cfgVars, cmdVars,
                    currentMode, iterVars, target, handlers, child, device,
                    histVars, obsVars >>

\* ------------------------------------------------------- system(3)
\* The string a char* hands to system(): what asprintf built, or, through
\* a pointer already freed, either the old bytes or garbage.
CommandsOf(cmd) ==
    IF cmd.st = "valid" THEN {cmd.mode}
    ELSE IF cmd.st = "freed" THEN {cmd.mode, "garbage"}
    ELSE {}

Running(m) == [st |-> "running", mode |-> m, code |-> 0]

Exited(c) == [st |-> "exited", mode |-> "none", code |-> c]

CallRecord(m, cmd, who) == [mode |-> m, cmd |-> cmd, by |-> who]

\* system() ignores SIGINT in the caller from the start of the command
\* until system() returns; a system() that was interrupted by a handler
\* never returns.
SystemActive ==
    \/ pc = "sw_wait"
    \/ \E i \in DOMAIN handlers : handlers[i].pc = "h_wait"

\* The caller of system() that will collect a command's status: the main
\* flow while no handler has interrupted it, else the innermost handler.
Collects(o) ==
    /\ proc = "running"
    /\ IF handlers = << >> THEN o = "main" ELSE o = HOwner(Len(handlers))

\* The command process ends: with exit status 0 it has applied its mode to
\* the GPU, otherwise it has not.  It runs on by itself when the daemon has
\* gone or its caller was interrupted for good.
ChildFinish ==
    \E o \in Owners :
       /\ child[o].st = "running"
       /\ \E ok \in BOOLEAN :
             /\ ok => child[o].mode \in Modes
             /\ device' = IF ok THEN [mode |-> child[o].mode, by |-> o]
                                 ELSE device
             /\ child' = [child EXCEPT
                             ![o] = IF Collects(o)
                                    THEN Exited(IF ok THEN EXIT_OK
                                                      ELSE EXIT_FAIL)
                                    ELSE NoChild]
       /\ UNCHANGED << pc, proc, exitStatus, installed, xVars, cfgVars,
                       cmdVars, currentMode, iterVars, target, sleepUs,
                       handlers, calls, iterCalls, iterRets, obsVars >>

\* ------------------------- SwitchToLowPower / SwitchToHighPower (main)
SwitchCmd(m) == IF m = LOW_POWER THEN lowPowerCmd ELSE highPowerCmd

\* retVal = system(cmd): the command is started
SwitchSystemStart ==
    /\ MainRuns /\ pc = "sw_call"
    /\ \E m \in CommandsOf(SwitchCmd(target)) :
          child' = [child EXCEPT !["main"] = Running(m)]
    /\ calls' = Append(calls, CallRecord(target, SwitchCmd(target), "loop"))
    /\ iterCalls' =
          Append(iterCalls, CallRecord(target, SwitchCmd(target), "loop"))
    /\ pc' = "sw_wait"
    /\ runCalls' = runCalls + 1
    /\ UNCHANGED << proc, exitStatus, installed, xVars, cfgVars, cmdVars,
                    currentMode, iterVars, target, sleepUs, handlers, device,
                    iterRets,
                    lastLog, refCalls, quiet >>

\* retVal = system(cmd): no child process could be created, system returns -1
SwitchSystemNoChild ==
    /\ MainRuns /\ pc = "sw_call"
    /\ calls' = Append(calls, CallRecord(target, SwitchCmd(target), "loop"))
    /\ iterCalls' =
          Append(iterCalls, CallRecord(target, SwitchCmd(target), "loop"))
    /\ iterRets' = Append(iterRets, NO_CHILD)
    /\ pc' = "sw_set"
    /\ runCalls' = runCalls + 1
    /\ UNCHANGED << proc, exitStatus, installed, xVars, cfgVars, cmdVars,
                    currentMode, iterVars, target, sleepUs, handlers, child,
                    device,
                    lastLog, refCalls, quiet >>

\* (variant: a failed command waited on until it succeeds)
AfterSystemBlocks(retVal) == IF retVal = EXIT_OK THEN "sw_set" ELSE "sw_wait"

\* Where the main flow continues once system() has returned retVal.
AfterSystem(retVal) == "sw_set"

\* system() returns the command's status
SwitchSystemReturn ==
    /\ MainRuns /\ pc = "sw_wait"
    /\ child["main"].st = "exited"
    /\ iterRets' = Append(iterRets, child["main"].code)
    /\ child' = [child EXCEPT !["main"] = NoChild]
    /\ pc' = AfterSystem(child["main"].code)
    /\ UNCHANGED << proc, exitStatus, installed, xVars, cfgVars, cmdVars,
                    currentMode, iterVars, target, sleepUs, handlers, device,
                    calls, iterCalls, obsVars >>

\* (variant: currentMode kept when the command failed)
ModeAfterSwitchRollback(m, retVal, old) == IF retVal = EXIT_OK THEN m ELSE old

\* The value the Switch function stores in currentMode after system()
\* returned retVal.
ModeAfterSwitch(m, retVal, old) == m

\* LOG("Switched to ... power - polling for ... every %dms")
SwitchedLine(m) ==
    IF m = LOW_POWER
    THEN LOG("Switched to low power - polling for action every %dms")
    ELSE LOG("Switched to high power - polling for idle every %dms")

\* LOGDEBUG, LOG, currentMode = LOW_POWER / HIGH_POWER
SwitchSetMode ==
    /\ MainRuns /\ pc = "sw_set"
    /\ currentMode' =
          ModeAfterSwitch(target, iterRets[Len(iterRets)], currentMode)
    /\ pc' = "sw_done"
    /\ lastLog' = LOGDEBUG("nvidia-settings returned %d")
                     \o SwitchedLine(target)
    /\ UNCHANGED << proc, exitStatus, installed, xVars, cfgVars, cmdVars,
                    iterVars, target, sleepUs, handlers, child, device,
                    histVars,
                    refCalls, runCalls, quiet >>

\* back in main after SwitchToHighPower: LOGDEBUG and
\* usleep((SWITCH_TO_LOW_POWER_AFTER_IDLE_MS - idleMS + 1) * 1000)
UsleepAfterSwitchToHigh ==
    /\ MainRuns /\ pc = "sw_done"
    /\ target = HIGH_POWER
    /\ \E us \in ComputedSleepUs(idleMS) : sleepUs' = us
    /\ target' = "none"
    /\ pc' = "sleep"
    /\ lastLog' = LOGDEBUG("Polling again in %dms")
    /\ UNCHANGED << proc, exitStatus, installed, xVars, cfgVars, cmdVars,
                    currentMode, iterVars, handlers, child, device,
                    histVars,
                    refCalls, runCalls, quiet >>

\* back in main after SwitchToLowPower:
\* usleep(IDLE_POLL_FREQ_HIGH_POWER_MS * 1000)
UsleepAfterSwitchToLow ==
    /\ MainRuns /\ pc = "sw_done"
    /\ target = LOW_POWER
    /\ sleepUs' = HighPowerSleepUs
    /\ target' = "none"
    /\ pc' = "sleep"
    /\ UNCHANGED << proc, exitStatus, installed, xVars, cfgVars, cmdVars,
                    currentMode, iterVars, handlers, child, device,
                    histVars, obsVars >>

\* usleep returns; while (1) goes round
SleepReturn ==
    /\ MainRuns /\ pc = "sleep"
    /\ pc' = "poll"
    /\ UNCHANGED << proc, exitStatus, installed, xVars, cfgVars, cmdVars,
                    currentMode, iterVars, target, sleepUs, handlers, child,
                    device, histVars, obsVars >>

\* ------------------------------------------------- signal delivery
\* sa_mask is empty and sa_flags is 0: while HandleSignal runs for a signal
\* only that signal is blocked.
Blocked(sig) == \E i \in DOMAIN handlers : handlers[i].sig = sig

Frame(sig) == [sig |-> sig, pc |-> "h_call"]

\* A signal whose disposition is HandleSignal is delivered: the handler
\* starts on top of whatever was running.
Deliver(sig) ==
    /\ proc = "running"
    /\ sig \in installed
    /\ ~Blocked(sig)
    /\ sig = SIGINT => ~SystemActive
    /\ handlers' = Append(handlers, Frame(sig))
    /\ UNCHANGED << pc, proc, exitStatus, installed, xVars, cfgVars, cmdVars,
                    currentMode, iterVars, target, sleepUs, child, device,
                    histVars, obsVars >>

DeliverSigterm == Deliver(SIGTERM)

DeliverSigint == Deliver(SIGINT)

\* -------------------------------------------------- HandleSignal
Top == Len(handlers)

InHandler(at) ==
    /\ proc = "running"
    /\ handlers # << >>
    /\ handlers[Top].pc = at

GoTo(at) == handlers' = [handlers EXCEPT ![Top].pc = at]

\* LOGDEBUG; SwitchToLowPower: system(lowPowerCmd) starts the command
HandlerSystemStart ==
    /\ InHandler("h_call")
    /\ \E m \in CommandsOf(lowPowerCmd) :
          child' = [child EXCEPT ![HOwner(Top)] = Running(m)]
    /\ calls' = Append(calls, CallRecord(LOW_POWER, lowPowerCmd, "handler"))
    /\ GoTo("h_wait")
    /\ lastLog' = LOGDEBUG("Signal %d received.")
    /\ UNCHANGED << pc, proc, exitStatus, installed, xVars, cfgVars, cmdVars,
                    currentMode, iterVars, target, sleepUs, device,
                    iterCalls, iterRets,
                    refCalls, runCalls, quiet >>

\* system(lowPowerCmd) returns at once: no child process could be created,
\* or lowPowerCmd is NULL and system() only reports whether a shell exists.
\* Then LOGDEBUG, LOG, currentMode = LOW_POWER and SwitchToLowPower returns.
HandlerSystemNoChild ==
    /\ InHandler("h_call")
    /\ calls' = Append(calls, CallRecord(LOW_POWER, lowPowerCmd, "handler"))
    /\ currentMode' = LOW_POWER
    /\ GoTo("free_low")
    /\ lastLog' = LOGDEBUG("Signal %d received.")
                     \o LOGDEBUG("nvidia-settings returned %d")
                     \o SwitchedLine(LOW_POWER)
    /\ UNCHANGED << pc, proc, exitStatus, installed, xVars, cfgVars, cmdVars,
                    iterVars, target, sleepUs, child, device, iterCalls,
                    iterRets,
                    refCalls, runCalls, quiet >>

\* system(lowPowerCmd) returns the command's status; LOGDEBUG, LOG,
\* currentMode = LOW_POWER and SwitchToLowPower returns
HandlerSystemReturn ==
    /\ InHandler("h_wait")
    /\ child[HOwner(Top)].st = "exited"
    /\ child' = [child EXCEPT ![HOwner(Top)] = NoChild]
    /\ currentMode' = LOW_POWER
    /\ GoTo("free_low")
    /\ lastLog' = LOGDEBUG("nvidia-settings returned %d")
                     \o SwitchedLine(LOW_POWER)
    /\ UNCHANGED << pc, proc, exitStatus, installed, xVars, cfgVars, cmdVars,
                    iterVars, target, sleepUs, device, histVars,
                    refCalls, runCalls, quiet >>

\* ------------------------------------------------------- Cleanup
\* free(p): nothing for NULL, releases a live block; freeing a block twice
\* is undefined: the allocator aborts the process or goes on.
FreeCrashes(p) == IF p.st = "freed" THEN {TRUE, FALSE} ELSE {FALSE}

Freed(p) == IF p.st = "null" THEN p ELSE [p EXCEPT !.st = "freed"]

\* free(lowPowerCmd)
CleanupFreeLow ==
    /\ InHandler("free_low")
    /\ \E crash \in FreeCrashes(lowPowerCmd) :
          IF crash
          THEN /\ proc' = "crashed"
               /\ UNCHANGED << handlers, lowPowerCmd >>
          ELSE /\ lowPowerCmd' = Freed(lowPowerCmd)
               /\ GoTo("free_high")
               /\ UNCHANGED proc
    /\ UNCHANGED << pc, exitStatus, installed, xVars, cfgVars, highPowerCmd,
                    currentMode, iterVars, target, sleepUs, child, device,
                    histVars, obsVars >>

\* free(highPowerCmd)
CleanupFreeHigh ==
    /\ InHandler("free_high")
    /\ \E crash \in FreeCrashes(highPowerCmd) :
          IF crash
          THEN /\ proc' = "crashed"
               /\ UNCHANGED << handlers, highPowerCmd >>
          ELSE /\ highPowerCmd' = Freed(highPowerCmd)
               /\ GoTo("xfree")
               /\ UNCHANGED proc
    /\ UNCHANGED << pc, exitStatus, installed, xVars, cfgVars, lowPowerCmd,
                    currentMode, iterVars, target, sleepUs, child, device,
                    histVars, obsVars >>

\* XFree(SSInfo): free() of the block, with free's rules
CleanupXFree ==
    /\ InHandler("xfree")
    /\ \E crash \in (IF SSInfo = "freed" THEN {TRUE, FALSE} ELSE {FALSE}) :
          IF crash
          THEN /\ proc' = "crashed"
               /\ UNCHANGED << handlers, SSInfo >>
          ELSE /\ SSInfo' = IF SSInfo = "null" THEN "null" ELSE "freed"
               /\ GoTo("xclose")
               /\ UNCHANGED proc
    /\ UNCHANGED << pc, exitStatus, installed, display, cfgVars, cmdVars,
                    currentMode, iterVars, target, sleepUs, child, device,
                    histVars, obsVars >>

\* XCloseDisplay(display): closes an open display; with NULL or a display
\* already closed it reads through a bad pointer, which is undefined: the
\* process faults or goes on.
CleanupXClose ==
    /\ InHandler("xclose")
    /\ \E crash \in (IF display = "open" THEN {FALSE} ELSE {TRUE, FALSE}) :
          IF crash
          THEN /\ proc' = "crashed"
               /\ UNCHANGED << handlers, display >>
          ELSE /\ display' = IF display = "null" THEN "null" ELSE "closed"
               /\ GoTo("h_exit")
               /\ UNCHANGED proc
    /\ UNCHANGED << pc, exitStatus, installed, SSInfo, cfgVars, cmdVars,
                    currentMode, iterVars, target, sleepUs, child, device,
                    histVars, obsVars >>

\* LOG("Exiting program.\n"); exit(0)
HandlerExit ==
    /\ InHandler("h_exit")
    /\ proc' = "exited"
    /\ exitStatus' = 0
    /\ lastLog' = LOG("Exiting program.")
    /\ UNCHANGED << pc, installed, xVars, cfgVars, cmdVars, currentMode,
                    iterVars, target, sleepUs, handlers, child, device,
                    histVars,
                    refCalls, runCalls, quiet >>

\* ----------------------------------------------------- specification
InitSteps ==
    \/ InstallSigterm
    \/ InstallSigint
    \/ AllocInfo
    \/ OpenDisplayOk
    \/ OpenDisplayFail
    \/ ArgpParse
    \/ PrepareLowOk
    \/ PrepareHighOk
    \/ PrepareFail

LoopSteps ==
    \/ Poll
    \/ LowPowerActivity
    \/ LowPowerIdle
    \/ HighPowerIdle
    \/ HighPowerActive
    \/ SwitchSystemStart
    \/ SwitchSystemNoChild
    \/ SwitchSystemReturn
    \/ SwitchSetMode
    \/ UsleepAfterSwitchToHigh
    \/ UsleepAfterSwitchToLow
    \/ SleepReturn

SignalSteps ==
    \/ DeliverSigterm
    \/ DeliverSigint

HandlerSteps ==
    \/ HandlerSystemStart
    \/ HandlerSystemNoChild
    \/ HandlerSystemReturn
    \/ CleanupFreeLow
    \/ CleanupFreeHigh
    \/ CleanupXFree
    \/ CleanupXClose
    \/ HandlerExit

Next == InitSteps \/ LoopSteps \/ SignalSteps \/ HandlerSteps \/ ChildFinish

Spec == Init /\ [][Next]_vars

\* The daemon with no termination signal ever sent.  usleep returns, and a
\* command that was started ends with some exit status.
UndisturbedNext == InitSteps \/ LoopSteps \/ ChildFinish

LiveSpec ==
    /\ Init
    /\ [][UndisturbedNext]_vars
    /\ WF_vars(LoopSteps)
    /\ WF_vars(ChildFinish)

\* ------------------------------------------------------- properties
Threshold == SWITCH_TO_LOW_POWER_AFTER_IDLE_MS

\* Activate(mode, gpu) issued by `who`: system() called with the command
\* string of that mode for that GPU.
Activate(m, g, who) ==
    CallRecord(m, IF m = LOW_POWER THEN LOW_POWER_CMD_FMT_STR(g)
                                   ELSE HIGH_POWER_CMD_FMT_STR(g), who)

\* The poll iteration has made all its calls and reached its sleep, or the
\* loop head where the next poll is taken.
IterationDone == MainRuns /\ polls > 0 /\ pc \in {"sleep", "poll"}

\* The loop head after an iteration: the state the next poll is taken in.
AtNextPoll == MainRuns /\ polls > 0 /\ pc = "poll"

LastCall == calls[Len(calls)]

HandlerCalls == SelectSeq(calls, LAMBDA c : c.by = "handler")

\* C1: a poll taken in low power whose idle sample is below the threshold
\* makes the loop issue exactly one Activate(High, gpuID) and nothing else
\* in that iteration, and currentMode is High when the next poll is taken.
C1_LowToHigh ==
    (polls > 0 /\ iterMode = LOW_POWER /\ ReportedLess(sample, Threshold)) =>
        /\ iterCalls \in {<< >>, << Activate(HIGH_POWER, gpuID, "loop") >>}
        /\ IterationDone =>
              iterCalls = << Activate(HIGH_POWER, gpuID, "loop") >>
        /\ AtNextPoll => currentMode = HIGH_POWER

C1_Witness ==
    /\ AtNextPoll
    /\ iterMode = LOW_POWER
    /\ sample = IdleValue(0, Threshold - 1)
    /\ iterCalls = << Activate(HIGH_POWER, 2, "loop") >>
    /\ currentMode = HIGH_POWER

\* C2: a poll taken in high power whose idle sample is at or above the
\* threshold makes the loop issue exactly one Activate(Low, gpuID) and
\* nothing else, and currentMode is Low when the next poll is taken; a
\* sample of threshold - 1 in high power issues nothing.
C2_HighToLow ==
    /\ (polls > 0 /\ iterMode = HIGH_POWER
              /\ ~ReportedLess(sample, Threshold)) =>
          /\ iterCalls \in {<< >>, << Activate(LOW_POWER, gpuID, "loop") >>}
          /\ IterationDone =>
                iterCalls = << Activate(LOW_POWER, gpuID, "loop") >>
          /\ AtNextPoll => currentMode = LOW_POWER
    /\ (polls > 0 /\ iterMode = HIGH_POWER
              /\ sample = IdleValue(0, Threshold - 1)) => iterCalls = << >>

\* C3: a poll taken in low power with a sample at or above the threshold,
\* or in high power with a sample below it, issues no Activate call and
\* leaves currentMode as it was.
C3_NoOp ==
    (/\ polls > 0
     /\ \/ iterMode = LOW_POWER /\ ~ReportedLess(sample, Threshold)
        \/ iterMode = HIGH_POWER /\ ReportedLess(sample, Threshold)) =>
        /\ iterCalls = << >>
        /\ MainRuns => currentMode = iterMode

\* C4: once a termination signal has been delivered the process ends by
\* exiting, and by then the handler has issued exactly one call, an
\* Activate(Low, gpuID), which is the last call of the run.
C4_Termination ==
    (handlers # << >> /\ proc # "running") =>
        /\ proc = "exited"
        /\ HandlerCalls = << Activate(LOW_POWER, gpuID, "handler") >>
        /\ LastCall = Activate(LOW_POWER, gpuID, "handler")

\* C5: once the low-power command forced by the signal handler has taken
\* effect on the GPU, no other mode is applied to it any more: the forced
\* Activate(Low) is the final command applied, whatever was in flight.
C5_ForcedLowIsFinal ==
    [][(device.by \in {"h1", "h2"} /\ device.mode = LOW_POWER)
          => device'.mode = LOW_POWER]_vars

\* C6: when the command of a transition fails (system() returns non-zero
\* or -1) the Switch function still sets currentMode to its target, the
\* command is not issued again in that iteration, currentMode is not
\* reverted, and the loop goes on to its sleep and next poll as after a
\* success.
C6_FireAndForget ==
    (/\ MainRuns
     /\ iterRets # << >>
     /\ iterRets[1] # EXIT_OK) =>
        /\ Len(iterRets) = 1
        /\ Len(iterCalls) = 1
        /\ pc \in {"sw_set", "sw_done", "sleep", "poll"}
        /\ pc # "sw_set" => currentMode = iterCalls[1].mode
        /\ pc = "sleep" =>
              IF iterCalls[1].mode = LOW_POWER
              THEN sleepUs = IDLE_POLL_FREQ_HIGH_POWER_MS * 1000
              ELSE sleepUs \in ComputedSleepUs(idleMS)

C6_Witness ==
    /\ AtNextPoll
    /\ iterRets = << NO_CHILD >>
    /\ iterCalls = << Activate(LOW_POWER, 2, "loop") >>
    /\ currentMode = LOW_POWER
    /\ Len(calls) = 2

\* C7: with no termination signal, once initialization has succeeded the
\* daemon never stops, and after every poll, whatever the sample and
\* whatever status the command of a transition returned, a next poll is
\* taken (for every poll within the explored number of polls).
C7_PollingLiveness ==
    /\ [](polls > 0 => proc = "running")
    /\ \A n \in 1..(MaxPolls - 1) :
          (polls = n /\ pc = "branch") ~> (polls = n + 1 /\ pc = "branch")

C7_Witness ==
    /\ polls = MaxPolls
    /\ pc = "branch"
    /\ proc = "running"
    /\ Len(calls) = MaxPolls - 1
    /\ calls[1].mode = HIGH_POWER

\* C8: whenever currentMode is Low when the loop goes to sleep, the sleep
\* is IDLE_POLL_FREQ_LOW_POWER_MS.
C8_LowCadence ==
    (MainRuns /\ pc = "sleep" /\ currentMode = LOW_POWER) =>
        sleepUs = IDLE_POLL_FREQ_LOW_POWER_MS * 1000

\* C9: whenever currentMode is High when the loop goes to sleep, the sleep
\* is IDLE_POLL_FREQ_HIGH_POWER_MS, except right after a Low -> High
\* transition, where it is threshold - idle sample + 1 milliseconds (taking
\* for the idle sample the int the loop holds).
C9_HighCadence ==
    (MainRuns /\ pc = "sleep" /\ currentMode = HIGH_POWER) =>
        IF iterMode = LOW_POWER
        THEN /\ ~ComputedSleepOverflows(idleMS)
             /\ sleepUs = (Threshold - idleMS + 1) * 1000
        ELSE sleepUs = IDLE_POLL_FREQ_HIGH_POWER_MS * 1000

\* C10: at every loop head currentMode is the target mode of the last call
\* issued, or Low when none was issued, as at the first loop head; and
\* currentMode only ever changes to the target of a call already issued.
C10_AtLoopHead ==
    (MainRuns /\ pc = "poll") =>
        /\ currentMode = IF calls = << >> THEN LOW_POWER ELSE LastCall.mode
        /\ polls = 0 => calls = << >>

C10_ModeTracksLastCall ==
    /\ []C10_AtLoopHead
    /\ [][currentMode' # currentMode =>
             /\ calls' # << >>
             /\ calls'[Len(calls')].mode = currentMode']_vars

C10_Witness ==
    /\ AtNextPoll
    /\ Len(calls) = 3
    /\ LastCall = Activate(HIGH_POWER, gpuID, "loop")
    /\ currentMode = HIGH_POWER

\* The Activate calls the poll loop has issued, in order.
LoopCalls == SelectSeq(calls, LAMBDA c : c.by = "loop")

\* C11: whenever an iteration of the poll loop is complete, the sequence of
\* Activate calls the loop has issued since start-up is the sequence the
\* two-state reference policy yields for the idle values reported to the
\* polls so far, each call being Activate(mode, gpuID).
C11_TraceCorrectness ==
    IterationDone =>
        /\ Len(LoopCalls) = Len(refCalls)
        /\ \A i \in DOMAIN refCalls :
              LoopCalls[i] = Activate(refCalls[i], gpuID, "loop")

\* C12: the Activate calls the poll loop issues alternate in target mode,
\* the first being High: the odd-numbered calls target High and the
\* even-numbered ones Low.  Hence consecutive polls that all report the same
\* idle value cause at most one call between them.
C12_Alternation ==
    /\ \A i \in DOMAIN LoopCalls :
          LoopCalls[i].mode = IF i % 2 = 1 THEN HIGH_POWER ELSE LOW_POWER
    /\ runCalls <= 1

C12_Witness ==
    /\ IterationDone
    /\ polls = 3
    /\ Len(LoopCalls) = 2
    /\ runCalls = 1

\* Nothing Cleanup releases has been released / all of it has been.
ReleasedNothing ==
    /\ lowPowerCmd.st # "freed" /\ highPowerCmd.st # "freed"
    /\ SSInfo # "freed" /\ display # "closed"

ReleasedAll ==
    /\ lowPowerCmd.st = "freed" /\ highPowerCmd.st = "freed"
    /\ SSInfo = "freed" /\ display = "closed"

\* The handler started by the first signal delivered.
FirstHandlerAt(pcs) == handlers # << >> /\ handlers[1].pc \in pcs

\* C13: once a termination signal has been delivered the handler issues the
\* forced Activate(Low, gpuID) before anything is released, then releases
\* the command strings, the screensaver info and the display, then the
\* process exits with status 0 (it does not end any other way); and from
\* the moment the handler starts the poll loop takes no further step: no
\* idle sample is taken and the loop issues no call.
C13_HandlerState ==
    handlers # << >> =>
        /\ proc # "crashed"
        /\ IF FirstHandlerAt({"h_call"})
           THEN HandlerCalls = << >>
           ELSE HandlerCalls[1] = Activate(LOW_POWER, gpuID, "handler")
        /\ FirstHandlerAt({"h_call", "h_wait"}) => ReleasedNothing
        /\ proc = "exited" => exitStatus = 0 /\ ReleasedAll

C13_SignalPathOrdering ==
    /\ []C13_HandlerState
    /\ [][handlers # << >> =>
             /\ pc' = pc
             /\ polls' = polls
             /\ LoopCalls' = LoopCalls]_vars

\* C14: when XOpenDisplay fails the process prints the cause and exits with
\* status 1, having taken no idle sample and issued no Activate call; it
\* does not retry or go on: the only step the main flow can take from the
\* XOpenDisplay call without the display being open is that exit, and the
\* poll loop is never entered.
C14_OpenFailed == proc = "exited" /\ pc = "done" /\ display = "null"

C14_FatalInit ==
    /\ [](C14_OpenFailed =>
             /\ exitStatus = 1
             /\ lastLog = << "Couldn't open X display!" >>
             /\ polls = 0
             /\ calls = << >>)
    /\ [][(pc = "init_open" /\ pc' # pc /\ display' # "open") =>
             C14_OpenFailed']_vars

C14_Witness ==
    /\ C14_OpenFailed
    /\ installed = {SIGTERM, SIGINT}
    /\ handlers = << >>
    /\ verbose = 0

\* C15: whenever the command of a transition fails, returning non-zero or
\* not being launched at all, the Switch function prints a line that
\* records the failure, whether or not --verbose was given.  The one line
\* that carries the status is "nvidia-settings returned %d".
C15_FailureLogged ==
    (MainRuns /\ pc = "sw_done" /\ iterRets[Len(iterRets)] # EXIT_OK) =>
        \E i \in DOMAIN lastLog : lastLog[i] = "nvidia-settings returned %d"

\* C16: after a Low -> High transition triggered by a reported sample s with
\* 0 <= s < threshold the loop sleeps exactly threshold - s + 1
\* milliseconds, a value within 1 .. threshold + 1.  So when no input
\* arrives during that sleep the next poll, which is taken only after it,
\* reports s + (threshold - s + 1) >= threshold in high power, and that
\* poll's iteration issues the Activate(Low, gpuID).
C16_SwitchedOn ==
    /\ MainRuns /\ pc = "sleep"
    /\ iterMode = LOW_POWER /\ iterCalls # << >>
    /\ ReportedLess(sample, Threshold)

C16_ComputedSleep ==
    /\ C16_SwitchedOn =>
          /\ sleepUs = (Threshold - sample.lo + 1) * 1000
          /\ sleepUs \div 1000 \in 1 .. Threshold + 1
    /\ (MainRuns /\ quiet) =>
          /\ sample.lo >= Threshold
          /\ iterMode = HIGH_POWER
          /\ IterationDone =>
                iterCalls = << Activate(LOW_POWER, gpuID, "loop") >>

C16_Witness ==
    /\ IterationDone
    /\ quiet
    /\ polls = 2
    /\ calls = << Activate(HIGH_POWER, gpuID, "loop"),
                  Activate(LOW_POWER, gpuID, "loop") >>

\* C17: the value the loop compares with the threshold orders as the value
\* the X server reported does, for every reportable value: a sample at or
\* above the threshold polled in low power causes no call, and the sleep
\* computed after a switch to high power stays within int.
C17_WidthPreserved ==
    (MainRuns /\ polls > 0) =>
        /\ ActivityDetected(idleMS) <=> ReportedLess(sample, Threshold)
        /\ (iterMode = LOW_POWER /\ ~ReportedLess(sample, Threshold)) =>
              iterCalls = << >>
        /\ (pc = "sw_done" /\ target = HIGH_POWER) =>
              ~ComputedSleepOverflows(idleMS)

\* The handler activations that have entered Cleanup.
InCleanup ==
    {i \in DOMAIN handlers :
        handlers[i].pc \in {"free_low", "free_high", "xfree", "xclose",
                            "h_exit"}}

\* C18: when a second termination signal arrives before the process has
\* exited the shutdown sequence still runs at most once: the handler issues
\* at most one Activate(Low), at most one activation enters Cleanup, and no
\* call is made with a command string Cleanup has already freed.
C18_ShutdownOnce ==
    /\ Len(HandlerCalls) <= 1
    /\ Cardinality(InCleanup) <= 1
    /\ \A i \in DOMAIN calls : calls[i].cmd.st # "freed"

\* C19: every call, the handler's included, is made with the command string
\* PrepareCommands built for its mode and the configured gpuID, and whenever
\* an activation is in Cleanup the display, the screensaver info and both
\* command strings have been acquired; this from the moment the first
\* handler is installed.
C19_PreparedBeforeUse ==
    /\ \A i \in DOMAIN calls :
          /\ calls[i].cmd.st # "null"
          /\ calls[i].cmd.mode = calls[i].mode
          /\ calls[i].cmd.gpu = gpuID
    /\ InCleanup # {} =>
          /\ lowPowerCmd.st # "null" /\ highPowerCmd.st # "null"
          /\ SSInfo # "null" /\ display # "null"
=============================================================================
